---- MODULE Spec2Model ----
(***************************************************************************)
(* Dual-provider embedding ingestion and search routing of the node-app    *)
(* server: the routes of server/routes.ts, the embedding service of        *)
(* server/embeddings and the chunks table of db/schema.ts.                 *)
(*                                                                         *)
(* Representation of JavaScript and SQL values:                            *)
(*   - a JSON body, a values object and a table row are records; a field   *)
(*     that is undefined (JavaScript) or NULL (SQL) is absent from the     *)
(*     record's domain;                                                    *)
(*   - a string is a sequence of one-character strings;                    *)
(*   - text is [str |-> chars] or, when the caller sent a number instead,  *)
(*     [num |-> n];                                                        *)
(*   - an array of numbers is [len |-> n, x |-> a, y |-> b]: n numbers of  *)
(*     which the first two are a and b and the others are 0; a value that  *)
(*     is sent where an array is expected but is not one is [str |-> s].   *)
(***************************************************************************)
EXTENDS Integers, Sequences, FiniteSets, TLC

VARIABLES chunks, idSeq, clock, apiKey, last

vars == <<chunks, idSeq, clock, apiKey, last>>

-----------------------------------------------------------------------------
(* Bounds of the model.                                                     *)

MaxRows == 2

MaxItems == 3

-----------------------------------------------------------------------------
(* Program constants.                                                       *)

OpenaiDimensions == 1536

LocalDimensions == 384

DefaultRetries == 2

DefaultLimit == 5

-----------------------------------------------------------------------------
(* JavaScript values.                                                       *)

Has(o, f) == f \in DOMAIN o

Merge(f, g) == [k \in DOMAIN f \cup DOMAIN g |-> IF k \in DOMAIN g THEN g[k] ELSE f[k]]

Only(o, keys) == [k \in DOMAIN o \cap keys |-> o[k]]

Opt(o, f, k) == IF Has(o, f) THEN k :> o[f] ELSE <<>>

IsString(v) == Has(v, "str")

IsArray(v) == Has(v, "len")

\* !o.f for a field holding a number
FalsyNumZeroOnly(o, f) == Has(o, f) /\ o[f] = 0

FalsyNum(o, f) == ~Has(o, f) \/ o[f] = 0

\* !o.f for a field holding text, an array, or a value of another type
FalsyVal(o, f) ==
  \/ ~Has(o, f)
  \/ IsString(o[f]) /\ o[f].str = <<>>
  \/ Has(o[f], "num") /\ o[f].num = 0

RECURSIVE TrimStart(_)
TrimStart(s) == IF s # <<>> /\ Head(s) = " " THEN TrimStart(Tail(s)) ELSE s

RECURSIVE TrimEnd(_)
TrimEnd(s) ==
  IF s # <<>> /\ s[Len(s)] = " " THEN TrimEnd(SubSeq(s, 1, Len(s) - 1)) ELSE s

Trim(s) == TrimEnd(TrimStart(s))

\* String.prototype.includes
Includes(s, pat) ==
  \E i \in 0..(Len(s) - Len(pat)) : SubSeq(s, i + 1, i + Len(pat)) = pat

DigitChar(d) == <<"0", "1", "2", "3", "4", "5", "6", "7", "8", "9">>[d + 1]

RECURSIVE Decimal(_)
\* the template-literal rendering of a non-negative integer
Decimal(n) == IF n < 10 THEN <<DigitChar(n)>> ELSE Decimal(n \div 10) \o <<DigitChar(n % 10)>>

-----------------------------------------------------------------------------
(* server/embeddings/openai-embeddings.ts                                   *)

MsgTextEmpty == <<"T","e","x","t"," ","c","a","n","n","o","t"," ","b","e"," ","e","m","p","t","y">>

MsgKeyNotSet ==
  <<"O","P","E","N","A","I","_","A","P","I","_","K","E","Y"," ","e","n","v","i","r","o","n","m","e","n","t"," ","v","a","r","i","a","b","l","e"," ","i","s"," ","n","o","t"," ","s","e","t">>

MsgKeyNotConfigured ==
  <<"O","P","E","N","A","I","_","A","P","I","_","K","E","Y"," ","i","s"," ","n","o","t"," ","c","o","n","f","i","g","u","r","e","d">>

MsgExpected ==
  <<"E","x","p","e","c","t","e","d"," ","1","5","3","6"," ","d","i","m","e","n","s","i","o","n","s",","," ","g","o","t"," ">>

DimensionMessage(n) == MsgExpected \o Decimal(n)

IsRetryableAlways(message) == TRUE

IsRetryable(message) ==
  \/ Includes(message, <<"r","a","t","e"," ","l","i","m","i","t">>)
  \/ Includes(message, <<"t","i","m","e","o","u","t">>)
  \/ Includes(message, <<"5","0","3">>)
  \/ Includes(message, <<"4","2","9">>)

\* Math.pow(2, attempt) * 1000
RECURSIVE Pow2(_)
Pow2(n) == IF n = 0 THEN 1 ELSE 2 * Pow2(n - 1)

Backoff(attempt) == Pow2(attempt) * 1000

\* One pass of the for loop: what the attempt ends with.  reply is what the
\* remote service answers: [embedding |-> v] or [error |-> message].
AttemptError(reply) ==
  IF Has(reply, "error") THEN reply.error
  ELSE DimensionMessage(reply.embedding.len)

AttemptFails(reply) ==
  Has(reply, "error") \/ reply.embedding.len # OpenaiDimensions

RECURSIVE RetryLoop(_, _, _, _)
\* replies[attempt + 1] is the remote service's answer to call number attempt.
RetryLoop(replies, retries, attempt, delays) ==
  LET reply == replies[attempt + 1]
      calls == attempt + 1
  IN IF ~AttemptFails(reply)
       THEN [embedding |-> reply.embedding, calls |-> calls, delays |-> delays]
     ELSE IF IsRetryable(AttemptError(reply)) /\ attempt < retries
       THEN RetryLoop(replies, retries, attempt + 1, Append(delays, Backoff(attempt)))
     ELSE [error |-> AttemptError(reply), calls |-> calls, delays |-> delays]

generateOpenAIEmbedding(text, retries, key, replies) ==
  IF text = <<>> \/ Trim(text) = <<>>
    THEN [error |-> MsgTextEmpty, calls |-> 0, delays |-> <<>>]
  ELSE IF ~key
    THEN [error |-> MsgKeyNotSet, calls |-> 0, delays |-> <<>>]
  ELSE RetryLoop(replies, retries, 0, <<>>)

isOpenAIConfiguredAlways(key) == TRUE

\* !!process.env.OPENAI_API_KEY
isOpenAIConfigured(key) == key

getOpenAIEmbeddingDimensions == OpenaiDimensions

-----------------------------------------------------------------------------
(* server/embeddings/index.ts                                               *)

generateEmbedding(text, key, replies) ==
  IF text = <<>> \/ Trim(text) = <<>>
    THEN [error |-> MsgTextEmpty, calls |-> 0, delays |-> <<>>]
  ELSE IF ~isOpenAIConfigured(key)
    THEN [error |-> MsgKeyNotConfigured, calls |-> 0, delays |-> <<>>]
  ELSE LET r == generateOpenAIEmbedding(text, DefaultRetries, key, replies)
       IN IF Has(r, "error") THEN r
          ELSE Merge(r, [dimensions |-> getOpenAIEmbeddingDimensions, provider |-> "openai"])

-----------------------------------------------------------------------------
(* db/schema.ts: the chunks table, as the store keeps it.  db is the store:  *)
(* [chunks |-> the rows, idSeq |-> the last value of the id sequence,        *)
(* clock |-> the store's time, advanced by each row creation].               *)

NotNullColumns == {"id", "channelId", "userId", "content", "createdAt"}

Columns ==
  NotNullColumns \cup
    {"writerChannelId", "embeddingOpenai", "embeddingLocal", "embeddingProvider", "metadata"}

MsgDuplicateKey == <<"d","u","p","l","i","c","a","t","e"," ","k","e","y">>

MsgNotNull == <<"n","u","l","l"," ","v","a","l","u","e">>

MsgVector == <<"i","n","v","a","l","i","d"," ","v","e","c","t","o","r">>

MsgLimit == <<"L","I","M","I","T"," ","n","e","g","a","t","i","v","e">>

\* vector('embedding_openai', { dimensions: 1536 }), vector('embedding_local', { dimensions: 384 })
VectorColumnAccepts(values, column, dimensions) ==
  Has(values, column) => IsArray(values[column]) /\ values[column].len = dimensions

VectorsAccepted(values) ==
  /\ VectorColumnAccepts(values, "embeddingOpenai", OpenaiDimensions)
  /\ VectorColumnAccepts(values, "embeddingLocal", LocalDimensions)

\* a key of the id alone
ConflictTargetIdOnly(r, id, channelId) == r.id = id

\* the columns of the primary key, which are the conflict target of the upsert
ConflictTarget(r, id, channelId) == r.id = id /\ r.channelId = channelId

\* primaryKey({ columns: [table.id, table.channelId] })
PkConflictIgnored(rows, id, channelId) == FALSE

PkConflict(rows, id, channelId) ==
  \E r \in rows : ConflictTarget(r, id, channelId)

\* The row an INSERT builds: bigserial id, .default('openai'), .defaultNow().
NewRow(db, values) ==
  LET id == IF Has(values, "id") THEN values.id ELSE db.idSeq + 1
  IN Merge(Merge([embeddingProvider |-> "openai", createdAt |-> db.clock],
                 Only(values, Columns)),
           [id |-> id])

\* nextval is taken when the statement supplies no id, also when the insert fails.
SeqAfter(db, values) == IF Has(values, "id") THEN db.idSeq ELSE db.idSeq + 1

\* db.insert(chunks).values(values).returning()
Insert(db, values) ==
  LET row == NewRow(db, values)
      seq == SeqAfter(db, values)
  IN IF ~VectorsAccepted(values)
       THEN [error |-> MsgVector, db |-> db]
     ELSE IF NotNullColumns \ DOMAIN row # {}
       THEN [error |-> MsgNotNull, db |-> [db EXCEPT !.idSeq = seq]]
     ELSE IF PkConflict(db.chunks, row.id, row.channelId)
       THEN [error |-> MsgDuplicateKey, db |-> [db EXCEPT !.idSeq = seq]]
     ELSE [row |-> row,
           db |-> [chunks |-> db.chunks \cup {row}, idSeq |-> seq, clock |-> db.clock + 1]]

\* The SET clause of ON CONFLICT DO UPDATE: the columns of set that are not
\* undefined are assigned, every other column of the row keeps its value.
UpdateRowNulling(row, set) ==
  Merge(Only(row, NotNullColumns), Only(set, Columns))

\* the update stamps the row again
UpdateRowStamped(row, set) ==
  Merge(Merge(row, Only(set, Columns)), [createdAt |-> row.createdAt + 1])

UpdateRow(row, set) == Merge(row, Only(set, Columns))

\* db.insert(chunks).values(values).onConflictDoUpdate({ target: [id, channelId], set })
InsertOnConflictDoUpdate(db, values, set) ==
  LET row == NewRow(db, values)
  IN IF ~VectorsAccepted(values)
       THEN [error |-> MsgVector, db |-> db]
     ELSE IF NotNullColumns \ DOMAIN row # {}
       THEN [error |-> MsgNotNull, db |-> [db EXCEPT !.idSeq = SeqAfter(db, values)]]
     ELSE IF PkConflict(db.chunks, row.id, row.channelId)
       THEN LET old == CHOOSE r \in db.chunks : ConflictTarget(r, row.id, row.channelId)
                new == UpdateRow(old, set)
            IN [row |-> new,
                db |-> [db EXCEPT !.chunks = (db.chunks \ {old}) \cup {new},
                                  !.idSeq = SeqAfter(db, values)]]
     ELSE Insert(db, values)

-----------------------------------------------------------------------------
(* server/routes.ts.  A route is an operator from the store, the credential, *)
(* the JSON body and the remote service's answers to the route's outcome:    *)
(* [status, body, db, calls, delays, remote, stmts], where calls counts the   *)
(* requests made to the remote service, delays lists the backoff waits,      *)
(* remote lists the answers of the remote service and stmts counts the       *)
(* statements sent to the store.                                             *)

NoIo == [calls |-> 0, delays |-> <<>>, remote |-> <<>>, stmts |-> 0]

\* remote is the answers the remote service gave, one for each call
IoOf(gen, replies) ==
  [calls |-> gen.calls, delays |-> gen.delays, remote |-> SubSeq(replies, 1, gen.calls),
   stmts |-> 0]

\* c.json(body) without a status answers 200
ReplyDefaultStatus(status, body, db, io) ==
  [status |-> IF status = 201 THEN 200 ELSE status, body |-> body, db |-> db,
   calls |-> io.calls, delays |-> io.delays, remote |-> io.remote, stmts |-> io.stmts]

\* c.json(body, status)
Reply(status, body, db, io) ==
  [status |-> status, body |-> body, db |-> db,
   calls |-> io.calls, delays |-> io.delays, remote |-> io.remote, stmts |-> io.stmts]

\* return c.json({ error: '...' }, 400)
Reject(text, db, io) == Reply(400, [error |-> [by |-> "route", text |-> text]], db, io)

\* catch (error) { return c.json({ error: error.message }, 500) }
Caught(message, db, io) == Reply(500, [error |-> [by |-> "thrown", text |-> message]], db, io)

ProviderDefaulted(body) == "openai"

\* every provider other than 'openai' taken for 'local'
ProviderElseLocal(body) ==
  IF Has(body, "provider") /\ body.provider # "openai" THEN "local" ELSE "openai"

\* const { provider = 'openai' } = body
ProviderOf(body) == IF Has(body, "provider") THEN body.provider ELSE "openai"

LimitOf(body) == IF Has(body, "limit") THEN body.limit ELSE DefaultLimit

LocalEmbeddingUnchecked(body) == FALSE

\* !v || !Array.isArray(v) || v.length !== 384
LocalEmbeddingInvalid(body) ==
  \/ FalsyVal(body, "embeddingLocal")
  \/ ~IsArray(body.embeddingLocal)
  \/ body.embeddingLocal.len # LocalDimensions

\* The generation comes first, the check of the supplied local vector second.
upsertEmbeddings(provider, body, gen) ==
  Merge(IF provider \in {"openai", "both"} THEN [embeddingOpenai |-> gen.embedding] ELSE <<>>,
        IF provider \in {"local", "both"} THEN Opt(body, "embeddingLocal", "embeddingLocal")
        ELSE <<>>)

upsertChunkDataCrossed(provider, body, gen) ==
  Merge(Merge(Merge([channelId |-> body.channelId, userId |-> body.channelId,
                     content |-> body.text.str, embeddingProvider |-> provider],
                    Opt(body, "writerChannelId", "writerChannelId")),
              Opt(body, "metadata", "metadata")),
        upsertEmbeddings(provider, body, gen))

\* A field the body lacks is undefined in chunkData: a column the statement
\* leaves out.
upsertChunkData(provider, body, gen) ==
  Merge(Merge([content |-> body.text.str, embeddingProvider |-> provider],
              Only(body, {"channelId", "userId", "writerChannelId", "metadata"})),
        upsertEmbeddings(provider, body, gen))

\* app.post('/chunks/upsert')
upsertRoute(db, key, body, replies) ==
  LET provider == ProviderOf(body)
      needsOpenai == provider \in {"openai", "both"}
      needsLocal == provider \in {"local", "both"}
      gen == generateEmbedding(body.text.str, key, replies)
      io == IF needsOpenai THEN IoOf(gen, replies) ELSE NoIo
      io1 == [io EXCEPT !.stmts = 1]
      chunkData == upsertChunkData(provider, body, gen)
      keyed == InsertOnConflictDoUpdate(db, Merge(Opt(body, "id", "id"), chunkData), chunkData)
      plain == Insert(db, chunkData)
  IN IF FalsyVal(body, "text") \/ FalsyNum(body, "channelId") \/ FalsyNum(body, "userId")
       THEN Reject("text, channelId, and userId are required", db, NoIo)
     ELSE IF ~IsString(body.text)
       THEN Reject("text must be a string", db, NoIo)
     ELSE IF provider \notin {"openai", "local", "both"}
       THEN Reject("provider must be \"openai\", \"local\", or \"both\"", db, NoIo)
     ELSE IF needsOpenai /\ Has(gen, "error")
       THEN Caught(gen.error, db, io)
     ELSE IF needsLocal /\ LocalEmbeddingInvalid(body)
       THEN Reject("Valid 384-dim embeddingLocal required for local/both provider", db, io)
     ELSE IF ~FalsyNum(body, "id")
       THEN IF Has(keyed, "error") THEN Caught(keyed.error, keyed.db, io1)
            ELSE Reply(200, [chunk |-> keyed.row, action |-> "upserted"], keyed.db, io1)
     ELSE IF Has(plain, "error") THEN Caught(plain.error, plain.db, io1)
          ELSE Reply(201, [chunk |-> plain.row, action |-> "created"], plain.db, io1)

SuppliedEmbeddingUnchecked(body, field, dimensions) == FALSE

\* embeddingX && (!Array.isArray(embeddingX) || embeddingX.length !== n)
SuppliedEmbeddingInvalid(body, field, dimensions) ==
  /\ ~FalsyVal(body, field)
  /\ ~IsArray(body[field]) \/ body[field].len # dimensions

\* !embeddingOpenai && !embeddingLocal
NoEmbeddingSkipped(body) == FALSE

NoEmbedding(body) == FalsyVal(body, "embeddingOpenai") /\ FalsyVal(body, "embeddingLocal")

chunksValues(body) ==
  Merge(Only(body, {"channelId", "userId", "writerChannelId", "embeddingOpenai",
                    "embeddingLocal", "metadata"}),
        [content |-> body.content.str,
         embeddingProvider |-> IF Has(body, "embeddingProvider") THEN body.embeddingProvider
                               ELSE "openai"])

\* app.post('/chunks')
chunksRoute(db, body) ==
  LET ins == Insert(db, chunksValues(body))
      io1 == [NoIo EXCEPT !.stmts = 1]
  IN IF FalsyNum(body, "channelId") \/ FalsyNum(body, "userId") \/ FalsyVal(body, "content")
       THEN Reject("Missing required fields: channelId, userId, content", db, NoIo)
     ELSE IF SuppliedEmbeddingInvalid(body, "embeddingOpenai", OpenaiDimensions)
       THEN Reject("embeddingOpenai must be an array of 1536 numbers", db, NoIo)
     ELSE IF SuppliedEmbeddingInvalid(body, "embeddingLocal", LocalDimensions)
       THEN Reject("embeddingLocal must be an array of 384 numbers", db, NoIo)
     ELSE IF NoEmbedding(body)
       THEN Reject("At least one embedding (embeddingOpenai or embeddingLocal) must be provided",
                   db, NoIo)
     ELSE IF Has(ins, "error") THEN Caught(ins.error, ins.db, io1)
     ELSE Reply(201, [chunk |-> ins.row], ins.db, io1)

\* app.post('/embed')
embedRoute(db, key, body, replies) ==
  LET gen == generateEmbedding(body.text.str, key, replies)
  IN IF FalsyVal(body, "text") \/ ~IsString(body.text)
       THEN Reject("text is required and must be a string", db, NoIo)
     ELSE IF Has(gen, "error") THEN Caught(gen.error, db, IoOf(gen, replies))
     ELSE Reply(200, [embedding |-> gen.embedding, dimensions |-> gen.dimensions,
                      provider |-> gen.provider], db, IoOf(gen, replies))

-----------------------------------------------------------------------------
(* The query of app.post('/search'): select().from(chunks)                   *)
(* .where(isNotNull(column)).orderBy(cosineDistance(column, query)).limit(n) *)

Dot(u, v) == u.x * v.x + u.y * v.y

Norm2(u) == Dot(u, u)

\* The cosine distance of a zero vector is NaN, which the store orders last.
IsNaN(u, q) == Norm2(u) = 0 \/ Norm2(q) = 0

\* cosineDistance(u, q) <= cosineDistance(v, q), for 1 - Dot / (|u| |q|),
\* compared without the square roots.
DistanceLeq(u, v, q) ==
  LET a == Dot(u, q)
      b == Dot(v, q)
  IN IF IsNaN(v, q) THEN TRUE
     ELSE IF IsNaN(u, q) THEN FALSE
     ELSE IF a >= 0 /\ b < 0 THEN TRUE
     ELSE IF a < 0 /\ b >= 0 THEN FALSE
     ELSE IF a >= 0 THEN a * a * Norm2(v) >= b * b * Norm2(u)
     ELSE a * a * Norm2(v) <= b * b * Norm2(u)

RECURSIVE WhereNotNull(_, _)
WhereNotNull(rows, column) ==
  IF rows = <<>> THEN <<>>
  ELSE IF Has(Head(rows), column)
    THEN <<Head(rows)>> \o WhereNotNull(Tail(rows), column)
  ELSE WhereNotNull(Tail(rows), column)

RECURSIVE InsertByDistance(_, _, _, _)
\* r goes behind every row that is at most as far from the query as r is
InsertByDistance(sorted, r, column, query) ==
  IF sorted = <<>> THEN <<r>>
  ELSE IF DistanceLeq(Head(sorted)[column], r[column], query)
    THEN <<Head(sorted)>> \o InsertByDistance(Tail(sorted), r, column, query)
  ELSE <<r>> \o sorted

RECURSIVE OrderByDistanceFrom(_, _, _, _)
OrderByDistanceFrom(sorted, rows, column, query) ==
  IF rows = <<>> THEN sorted
  ELSE OrderByDistanceFrom(InsertByDistance(sorted, Head(rows), column, query),
                           Tail(rows), column, query)

OrderBy(rows, column, query) == OrderByDistanceFrom(<<>>, rows, column, query)

LimitIgnored(rows, n) == rows

Limit(rows, n) == SubSeq(rows, 1, IF n < Len(rows) THEN n ELSE Len(rows))

\* rowOrder lists the rows of the table in the store's own order, which is
\* the order of rows at equal distance.
SelectNearest(rowOrder, column, query, n) ==
  IF n < 0 THEN [error |-> MsgLimit]
  ELSE [rows |-> Limit(OrderBy(WhereNotNull(rowOrder, column), column, query), n)]

embeddingColumnSwapped(provider) ==
  IF provider = "openai" THEN "embeddingLocal" ELSE "embeddingOpenai"

embeddingColumn(provider) ==
  IF provider = "openai" THEN "embeddingOpenai" ELSE "embeddingLocal"

\* a supplied vector taken as the query whatever the provider
QueryEmbeddingSuppliedFirst(provider, body, gen) ==
  IF Has(body, "embedding") /\ IsArray(body.embedding) THEN body.embedding ELSE gen.embedding

\* queryEmbedding = result.embedding for 'openai', = embedding for 'local'
QueryEmbedding(provider, body, gen) ==
  IF provider = "openai" THEN gen.embedding ELSE body.embedding

\* a search that takes the rows it returns out of the table
searchRouteConsuming(db, key, body, replies, rowOrder) ==
  LET sel == SelectNearest(rowOrder, "embeddingOpenai", [len |-> OpenaiDimensions, x |-> 1, y |-> 0],
                           DefaultLimit)
  IN Reply(200, [results |-> sel.rows, provider |-> "openai"],
           [db EXCEPT !.chunks = {r \in db.chunks : ~Has(r, "embeddingOpenai")}],
           [NoIo EXCEPT !.stmts = 1])

\* app.post('/search')
searchRoute(db, key, body, replies, rowOrder) ==
  LET provider == ProviderOf(body)
      gen == generateEmbedding(body.text.str, key, replies)
      io == IF provider = "openai" THEN IoOf(gen, replies) ELSE NoIo
      io1 == [io EXCEPT !.stmts = 1]
      queryEmbedding == QueryEmbedding(provider, body, gen)
      sel == SelectNearest(rowOrder, embeddingColumn(provider), queryEmbedding, LimitOf(body))
  IN IF provider # "openai" /\ provider # "local"
       THEN Reject("provider must be \"openai\" or \"local\"", db, NoIo)
     ELSE IF provider = "openai" /\ (FalsyVal(body, "text") \/ ~IsString(body.text))
       THEN Reject("text is required for OpenAI provider", db, NoIo)
     ELSE IF provider = "openai" /\ Has(gen, "error")
       THEN Caught(gen.error, db, io)
     ELSE IF provider = "local" /\ (FalsyVal(body, "embedding") \/ ~IsArray(body.embedding))
       THEN Reject("embedding array is required for local provider", db, NoIo)
     ELSE IF provider = "local" /\ body.embedding.len # LocalDimensions
       THEN Reject("Local embedding must be 384 dimensions", db, NoIo)
     ELSE IF Has(sel, "error") THEN Caught(sel.error, db, io1)
     ELSE Reply(200, [results |-> sel.rows, provider |-> provider], db, io1)

-----------------------------------------------------------------------------
(* POST /chunks/bulk-upsert: every element goes through the single-item      *)
(* upsert, in input order, on the store the elements before it left.         *)

bulkResult(out) ==
  IF out.status \in {200, 201}
    THEN [success |-> TRUE, chunk |-> out.body.chunk, action |-> out.body.action]
  ELSE [success |-> FALSE, error |-> out.body.error]

\* acc is [db, results, calls, remote, stmts] after the elements before this one
bulkItem(acc, key, provider, item, replies) ==
  LET out == upsertRoute(acc.db, key, Merge(item, [provider |-> provider]), replies)
  IN [db |-> out.db,
      results |-> Append(acc.results, bulkResult(out)),
      calls |-> Append(acc.calls, out.calls),
      remote |-> Append(acc.remote, out.remote),
      stmts |-> acc.stmts + out.stmts]

RECURSIVE bulkItems(_, _, _, _, _, _)
\* for (i = 1; i <= items.length; i++): each pass starts from the value the
\* pass before it produced
bulkItems(acc, key, provider, items, replies, i) ==
  IF i > Len(items) THEN acc
  ELSE CHOOSE r \in { bulkItems(next, key, provider, items, replies, i + 1) :
                        next \in {bulkItem(acc, key, provider, items[i], replies[i])} } : TRUE

CountSuccessAll(results, flag) == Len(results)

CountSuccess(results, flag) == Cardinality({i \in DOMAIN results : results[i].success = flag})

\* the batch handed to the elements without a look at its provider
bulkUpsertRouteUnvalidated(db, key, body, replies) ==
  LET start == [db |-> db, results |-> <<>>, calls |-> <<>>, remote |-> <<>>, stmts |-> 0]
      done == CHOOSE r \in {bulkItems(start, key, body.provider, body.chunks, replies, 1)} : TRUE
  IN [status |-> 200,
      body |-> [results |-> done.results,
                successCount |-> CountSuccess(done.results, TRUE),
                errorCount |-> CountSuccess(done.results, FALSE),
                total |-> Len(body.chunks)],
      db |-> done.db, calls |-> done.calls, remote |-> done.remote, delays |-> <<>>,
      stmts |-> done.stmts]

bulkUpsertRoute(db, key, body, replies) ==
  LET start == [db |-> db, results |-> <<>>, calls |-> <<>>, remote |-> <<>>, stmts |-> 0]
      done == CHOOSE r \in {bulkItems(start, key, body.provider, body.chunks, replies, 1)} : TRUE
  IN IF body.provider \notin {"openai", "local", "both"}
       THEN [status |-> 400,
             body |-> [error |-> [by |-> "route",
                                  text |-> "provider must be \"openai\", \"local\", or \"both\""]],
             db |-> db, calls |-> <<>>, remote |-> <<>>, delays |-> <<>>, stmts |-> 0]
     ELSE [status |-> 200,
           body |-> [results |-> done.results,
                     successCount |-> CountSuccess(done.results, TRUE),
                     errorCount |-> CountSuccess(done.results, FALSE),
                     total |-> Len(body.chunks)],
           db |-> done.db, calls |-> done.calls, remote |-> done.remote, delays |-> <<>>,
           stmts |-> done.stmts]

-----------------------------------------------------------------------------
(* The requests and the remote service's answers the model draws from.       *)

O1 == [len |-> OpenaiDimensions, x |-> 1, y |-> 0]

O2 == [len |-> OpenaiDimensions, x |-> 0, y |-> 1]

L1 == [len |-> LocalDimensions, x |-> 1, y |-> 0]

L2 == [len |-> LocalDimensions, x |-> 1, y |-> 1]

ShortLocal == [len |-> LocalDimensions - 1, x |-> 1, y |-> 0]

NotAnArray == [str |-> <<"v">>]

EmptyString == [str |-> <<>>]

TextA == [str |-> <<"a">>]

TextB == [str |-> <<"b">>]

ChannelIds == {1, 2}

\* The remote service embeds a text as a fixed vector.
RemoteVector(text) == IF text = <<"b">> THEN O2 ELSE O1

Err503 == [error |-> <<"5","0","3">>]

Err429 == [error |-> <<"4","2","9">>]

ErrTimeout == [error |-> <<"t","i","m","e","o","u","t">>]

ErrRateLimit == [error |-> <<"r","a","t","e"," ","l","i","m","i","t">>]

Err401 == [error |-> <<"4","0","1">>]

Err500 == [error |-> <<"5","0","0">>]

\* Three answers, one for each call generateOpenAIEmbedding can make.
Answering(text) == LET ok == [embedding |-> RemoteVector(text)] IN {<<ok, ok, ok>>}

Failing(text) ==
  LET ok == [embedding |-> RemoteVector(text)]
  IN { <<Err503, ok, ok>>,
       <<ErrTimeout, ErrRateLimit, Err429>>,
       <<Err401, ok, ok>>,
       <<[embedding |-> L1], ok, ok>>,
       <<[embedding |-> [len |-> 503, x |-> 1, y |-> 0]], ok, ok>> }

TextOf(body) == IF Has(body, "text") /\ IsString(body.text) THEN body.text.str ELSE <<>>

\* The descriptive fields come in two variants.
Variant(v) ==
  IF v = 1 THEN [text |-> TextA, userId |-> 1, writerChannelId |-> 7, metadata |-> "m",
                 embeddingLocal |-> L1]
  ELSE [text |-> TextB, userId |-> 2, embeddingLocal |-> L2]

Without(o, f) == Only(o, DOMAIN o \ {f})

ValidUpsertBodies ==
  { Merge(Variant(v), Merge([channelId |-> 1, provider |-> p], i)) :
      v \in {1, 2}, p \in {"openai", "local", "both"}, i \in {<<>>, [id |-> 1]} }
  \cup
  { Merge(Variant(2), [channelId |-> 2, provider |-> "local", id |-> 1]),
    Merge(Variant(1), [channelId |-> 2, provider |-> "openai", id |-> 1]) }
  \cup
  \* vectors the selected provider does not use
  { Merge(Variant(1), [channelId |-> 1, provider |-> "openai", id |-> 1,
                       embeddingLocal |-> ShortLocal]),
    Merge(Variant(2), [channelId |-> 1, provider |-> "local", embeddingOpenai |-> L1]) }

BaseUpsert == Merge(Variant(1), [channelId |-> 1, provider |-> "local", id |-> 1])

InvalidUpsertBodies ==
  { Without(BaseUpsert, "text"), Merge(BaseUpsert, [text |-> EmptyString]),
    Merge(BaseUpsert, [text |-> [num |-> 5]]),
    Merge(BaseUpsert, [text |-> [str |-> <<" ">>], provider |-> "openai"]),
    Without(BaseUpsert, "channelId"), Merge(BaseUpsert, [channelId |-> 0]),
    Without(BaseUpsert, "userId"), Merge(BaseUpsert, [userId |-> 0]),
    Merge(BaseUpsert, [provider |-> "invalid"]), Without(BaseUpsert, "provider"),
    Merge(BaseUpsert, [id |-> 0]),
    Without(Merge(Variant(2), [channelId |-> 1, provider |-> "both"]), "embeddingLocal") }
  \cup
  { Merge(e, [provider |-> p]) :
      e \in { Without(BaseUpsert, "embeddingLocal"),
              Merge(BaseUpsert, [embeddingLocal |-> ShortLocal]),
              Merge(BaseUpsert, [embeddingLocal |-> NotAnArray]) },
      p \in {"local", "both"} }

UpsertBodies == ValidUpsertBodies \cup InvalidUpsertBodies

\* The remote service answers, and for some requests it can also fail.
FailingBodies ==
  { b \in UpsertBodies : Has(b, "channelId") /\ ~Has(b, "id") /\ ~Has(b, "writerChannelId") }
  \cup { [provider |-> "openai", text |-> TextB], [text |-> TextA] }

RepliesFor(body) ==
  Answering(TextOf(body)) \cup (IF body \in FailingBodies THEN Failing(TextOf(body)) ELSE {})

ChunkVariant(v) ==
  IF v = 1 THEN [content |-> TextA, userId |-> 1, writerChannelId |-> 7, metadata |-> "m"]
  ELSE [content |-> TextB, userId |-> 2]

ValidChunkBodies ==
  { Merge(ChunkVariant(1), [channelId |-> 1, embeddingOpenai |-> O1]),
    Merge(ChunkVariant(2), [channelId |-> 1, embeddingLocal |-> L2]),
    Merge(ChunkVariant(2), [channelId |-> 2, embeddingOpenai |-> O2, embeddingLocal |-> L1,
                            embeddingProvider |-> "both"]) }

BaseChunk == Merge(ChunkVariant(1), [channelId |-> 1, embeddingLocal |-> L1,
                                     embeddingProvider |-> "local"])

InvalidChunkBodies ==
  { Without(BaseChunk, "content"), Without(BaseChunk, "channelId"),
    Merge(BaseChunk, [userId |-> 0]),
    Without(BaseChunk, "embeddingLocal"),
    Merge(BaseChunk, [embeddingLocal |-> ShortLocal]),
    Merge(BaseChunk, [embeddingLocal |-> NotAnArray]),
    Merge(BaseChunk, [embeddingOpenai |-> L1]),
    Merge(BaseChunk, [embeddingOpenai |-> EmptyString]),
    Merge(Without(BaseChunk, "embeddingLocal"), [embeddingOpenai |-> [len |-> 0, x |-> 0, y |-> 0]]) }

ChunkBodies == ValidChunkBodies \cup InvalidChunkBodies

SearchBodies ==
  { Merge([provider |-> "openai", text |-> t], l) :
      t \in {TextA, TextB}, l \in {<<>>, [limit |-> 1]} }
  \cup
  { Merge([provider |-> "local", embedding |-> e], l) :
      e \in {L1, [len |-> LocalDimensions, x |-> 0, y |-> 1]},
      l \in {<<>>, [limit |-> 0], [limit |-> 1]} }
  \cup
  { [text |-> TextA], [provider |-> "openai"], [provider |-> "openai", text |-> [num |-> 5]],
    [provider |-> "openai", text |-> TextA, embedding |-> ShortLocal],
    [provider |-> "both", text |-> TextA, embedding |-> L1],
    [provider |-> "invalid", text |-> TextA],
    [provider |-> "local", text |-> TextA],
    [provider |-> "local", text |-> TextA, embedding |-> L2],
    [provider |-> "local", embedding |-> ShortLocal],
    [provider |-> "local", embedding |-> NotAnArray],
    [provider |-> "local", embedding |-> L1, limit |-> -1] }

EmbedBodies == { [text |-> TextA], [text |-> TextB], [text |-> EmptyString],
                 [text |-> [num |-> 5]], [text |-> [str |-> <<" ">>]], <<>> }

BulkFirst == Merge(Variant(1), [channelId |-> 1])

BulkLast == Merge(Variant(2), [channelId |-> 1, id |-> 1])

BulkItems ==
  { BulkFirst, BulkLast,
    Without(Merge(Variant(1), [channelId |-> 2]), "userId"),
    Merge(Variant(2), [channelId |-> 1, embeddingLocal |-> ShortLocal]),
    Without(Merge(Variant(1), [channelId |-> 1]), "embeddingLocal") }

\* Every batch of up to two elements, and the longer ones that begin with
\* BulkFirst and end with BulkLast.
BulkBodies ==
  { [provider |-> p, chunks |-> items] :
      p \in {"openai", "local", "both", "invalid"},
      items \in { s \in UNION { [1..n -> BulkItems] : n \in 0..MaxItems } :
                    Len(s) > 2 => s[1] = BulkFirst /\ s[Len(s)] = BulkLast
                                  /\ \A i \in 2..(Len(s) - 1) : s[i] = s[2] } }

\* The remote service answers every element, or fails for one of them.
BulkReplies(body) ==
  LET n == Len(body.chunks)
      ok == [i \in 1..n |-> CHOOSE r \in Answering(TextOf(body.chunks[i])) : TRUE]
  IN {ok} \cup {[ok EXCEPT ![k] = <<Err401, Err401, Err401>>] : k \in 1..n}

\* The orders in which the store can hold the rows.
RowOrders(rows) ==
  { s \in [1..Cardinality(rows) -> rows] : \A i, j \in DOMAIN s : i # j => s[i] # s[j] }

-----------------------------------------------------------------------------
(* The state machine: one action for each route.                             *)

Db == [chunks |-> chunks, idSeq |-> idSeq, clock |-> clock]

Idle == [op |-> "none"]

Init ==
  /\ chunks = {}
  /\ idSeq = 0
  /\ clock = 0
  /\ apiKey \in BOOLEAN
  /\ last = Idle

\* The store after the route, and the request with its outcome, which stays
\* in last until the response is sent.  Requests are served one at a time,
\* and only while the table holds at most cap rows.
Served(op, body, out, cap) ==
  /\ last = Idle
  /\ Cardinality(out.db.chunks) <= cap
  /\ chunks' = out.db.chunks
  /\ idSeq' = out.db.idSeq
  /\ clock' = out.db.clock
  /\ apiKey' = apiKey
  /\ last' = [op |-> op, req |-> body, remote |-> out.remote,
              status |-> out.status, body |-> out.body,
              calls |-> out.calls, delays |-> out.delays, stmts |-> out.stmts]

Upsert ==
  \E body \in UpsertBodies : \E replies \in RepliesFor(body) :
    Served("upsert", body, upsertRoute(Db, apiKey, body, replies), MaxRows)

CreateChunk ==
  \E body \in ChunkBodies :
    Served("chunks", body, chunksRoute(Db, body), MaxRows)

Search ==
  \E body \in SearchBodies : \E replies \in RepliesFor(body) :
    \E rowOrder \in RowOrders(chunks) :
      Served("search", body, searchRoute(Db, apiKey, body, replies, rowOrder), MaxRows)

Embed ==
  \E body \in EmbedBodies : \E replies \in RepliesFor(body) :
    Served("embed", body, embedRoute(Db, apiKey, body, replies), MaxRows)

BulkUpsert ==
  \E body \in BulkBodies : \E replies \in BulkReplies(body) :
    Served("bulk", body, bulkUpsertRoute(Db, apiKey, body, replies), MaxRows)

\* The response leaves the server.
Respond ==
  /\ last # Idle
  /\ last' = Idle
  /\ UNCHANGED <<chunks, idSeq, clock, apiKey>>

Next == Upsert \/ CreateChunk \/ BulkUpsert \/ Search \/ Embed \/ Respond

Spec == Init /\ [][Next]_vars

-----------------------------------------------------------------------------
(* The search over a store that POST /chunks has filled with more rows than  *)
(* the default limit.                                                        *)

SeedVector(dimensions, x, y) == [len |-> dimensions, x |-> x, y |-> y]

SeedBody(c, ox, oy, lx, ly) ==
  Merge(ChunkVariant(1),
        [channelId |-> c, embeddingProvider |-> "both",
         embeddingOpenai |-> SeedVector(OpenaiDimensions, ox, oy),
         embeddingLocal |-> SeedVector(LocalDimensions, lx, ly)])

SeedBodies ==
  << SeedBody(1, 1, 2, 0, 1),
     SeedBody(1, 1, 0, 1, 1),
     Without(SeedBody(2, 1, 1, 1, 0), "embeddingLocal"),
     SeedBody(2, 2, 1, 2, 2),
     Without(SeedBody(1, 1, 0, 1, 2), "embeddingOpenai"),
     SeedBody(1, 0, 1, 2, 1),
     SeedBody(2, -1, 0, 1, 0),
     SeedBody(1, 2, 2, 0, -1) >>

SeedChunk ==
  \E body \in {SeedBodies[i] : i \in {Cardinality(chunks) + 1} \cap DOMAIN SeedBodies} :
    Served("chunks", body, chunksRoute(Db, body), Len(SeedBodies))

\* The rows by ascending id and by descending id.
SeedOrders(rows) ==
  LET n == Cardinality(rows)
      up == [i \in 1..n |-> CHOOSE r \in rows : r.id = i]
  IN {up, [i \in 1..n |-> up[n + 1 - i]]}

SeedSearchBodies ==
  { Merge(b, l) :
      b \in { [provider |-> "openai", text |-> TextA], [text |-> TextB],
              [provider |-> "local", embedding |-> L1],
              [provider |-> "local", embedding |-> L2] },
      l \in { <<>>, [limit |-> 0], [limit |-> 2], [limit |-> 5], [limit |-> 6],
              [limit |-> 9] } }

SearchSeeded ==
  \E body \in SeedSearchBodies : \E replies \in Answering(TextOf(body)) :
    \E rowOrder \in SeedOrders(chunks) :
      Served("search", body, searchRoute(Db, apiKey, body, replies, rowOrder), Len(SeedBodies))

NextSearch == SeedChunk \/ SearchSeeded \/ Respond

SpecSearch == Init /\ [][NextSearch]_vars

-----------------------------------------------------------------------------
(* The embedding generation against a remote service that can answer each    *)
(* of the three calls with a vector of any length or with an error.          *)

WrongLengths == {0, 384, 429, 503, OpenaiDimensions - 1, OpenaiDimensions + 1}

RemoteAnswers ==
  { [embedding |-> O1], Err503, Err429, ErrTimeout, ErrRateLimit, Err401, Err500 }
  \cup { [embedding |-> [len |-> n, x |-> 1, y |-> 0]] : n \in WrongLengths }

EmbedRetrying ==
  \E replies \in [1..(DefaultRetries + 1) -> RemoteAnswers] :
    Served("embed", [text |-> TextA],
           embedRoute(Db, apiKey, [text |-> TextA], replies), MaxRows)

NextEmbed == EmbedRetrying \/ Respond

SpecEmbed == Init /\ [][NextEmbed]_vars

-----------------------------------------------------------------------------
(* Properties.                                                               *)

KeyIn(rows, id, channelId) == \E r \in rows : r.id = id /\ r.channelId = channelId

RowAt(rows, id, channelId) == CHOOSE r \in rows : r.id = id /\ r.channelId = channelId

\* column holds in new what it holds in old (a value, or NULL)
ColumnKept(old, new, column) ==
  /\ Has(old, column) <=> Has(new, column)
  /\ Has(old, column) => old[column] = new[column]

Succeeded(l) == l.status \in {200, 201}

\* the request in last was answered by the keyed write of /chunks/upsert
KeyedUpsert(l) == l.op = "upsert" /\ l.status = 200

\* the vector the embedding generation ended on, for a request that called
\* the remote service
GenerationFailed(l) == l.calls = 0 \/ AttemptFails(l.remote[l.calls])

\* C1: a keyed upsert of an existing (id, channelId) row with provider P
\* leaves the embedding column P does not imply exactly as it was, and sets
\* the column(s) P implies to the vectors of this request.
C1_ColumnIndependence ==
  [][ (KeyedUpsert(last') /\ KeyIn(chunks, last'.req.id, last'.req.channelId)) =>
        LET old == RowAt(chunks, last'.req.id, last'.req.channelId)
            new == RowAt(chunks', last'.req.id, last'.req.channelId)
            p == ProviderOf(last'.req)
        IN /\ p = "openai" => ColumnKept(old, new, "embeddingLocal")
           /\ p = "local" => ColumnKept(old, new, "embeddingOpenai")
           /\ p \in {"openai", "both"} =>
                new.embeddingOpenai = last'.remote[last'.calls].embedding
           /\ p \in {"local", "both"} => new.embeddingLocal = last'.req.embeddingLocal
    ]_vars

\* a row that had only the local vector was upserted with provider 'openai'
\* and now holds both
C1_Witness ==
  /\ KeyedUpsert(last)
  /\ ProviderOf(last.req) = "openai"
  /\ \E r \in chunks :
       /\ r.id = last.req.id /\ r.channelId = last.req.channelId
       /\ Has(r, "embeddingLocal") /\ Has(r, "embeddingOpenai")
       /\ r.embeddingProvider = "openai"
       /\ r.embeddingLocal # last.req.embeddingLocal

\* C2: every stored chunk has at least one non-null embedding column, and a
\* POST /chunks that supplies neither embedding is answered 400 without a
\* statement reaching the store.
C2_AtLeastOneEmbedding ==
  /\ \A r \in chunks : Has(r, "embeddingOpenai") \/ Has(r, "embeddingLocal")
  /\ (last.op = "chunks" /\ ~Has(last.req, "embeddingOpenai")
        /\ ~Has(last.req, "embeddingLocal")) =>
       last.status = 400 /\ last.stmts = 0

\* a POST /chunks without any embedding was rejected while the store holds
\* a chunk with one embedding column null
C2_Witness ==
  /\ last.op = "chunks" /\ last.status = 400
  /\ ~Has(last.req, "embeddingOpenai") /\ ~Has(last.req, "embeddingLocal")
  /\ ~FalsyNum(last.req, "channelId") /\ ~FalsyNum(last.req, "userId")
  /\ \E r \in chunks : ~Has(r, "embeddingOpenai")

\* C3: no two stored chunks share the same (id, channelId).
C3_CompositeKeyUnique ==
  \A r1, r2 \in chunks : (r1.id = r2.id /\ r1.channelId = r2.channelId) => r1 = r2

\* two chunks with the same id live under different channels, and a keyed
\* upsert has just hit one of them
C3_Witness ==
  /\ KeyedUpsert(last)
  /\ \E r1, r2 \in chunks : r1.id = r2.id /\ r1.channelId # r2.channelId
                            /\ r1.id = last.req.id

SearchedColumn(body) ==
  IF ~Has(body, "provider") \/ body.provider = "openai" THEN "embeddingOpenai"
  ELSE "embeddingLocal"

SearchAnswered(l) == l.op = "search" /\ l.status = 200

\* C5: a search with provider P returns no chunk whose P column is null.
C5_SearchExclusion ==
  SearchAnswered(last) =>
    \A i \in DOMAIN last.body.results : Has(last.body.results[i], SearchedColumn(last.req))

\* a search by the OpenAI column returned a chunk while the store holds a
\* chunk that has only the local vector
C5_Witness ==
  /\ SearchAnswered(last)
  /\ SearchedColumn(last.req) = "embeddingOpenai"
  /\ last.body.results # <<>>
  /\ \E r \in chunks : ~Has(r, "embeddingOpenai") /\ Has(r, "embeddingLocal")

\* the vector the search compared the rows with
QueryOf(l) ==
  IF SearchedColumn(l.req) = "embeddingOpenai" THEN l.remote[l.calls].embedding
  ELSE l.req.embedding

OffersWrongLength(o, field, n) == Has(o, field) /\ IsArray(o[field]) /\ o[field].len # n

\* the request was refused and no statement went to the store
Refused(l) == l.status >= 400 /\ l.stmts = 0

\* the remote service's answer the generation ended on is a vector whose
\* length is not 1536
EndedOnWrongLength(calls, remote) ==
  /\ calls > 0
  /\ Has(remote[calls], "embedding")
  /\ remote[calls].embedding.len # 1536

\* every vector a stored row holds has the length of its column
StoredLengths(rows) ==
  \A r \in rows :
    /\ Has(r, "embeddingOpenai") => IsArray(r.embeddingOpenai) /\ r.embeddingOpenai.len = 1536
    /\ Has(r, "embeddingLocal") => IsArray(r.embeddingLocal) /\ r.embeddingLocal.len = 384

\* C7 as stated: every POST /chunks and every POST /chunks/upsert that offers
\* a local vector of length other than 384 or an OpenAI vector of length
\* other than 1536 is rejected and leaves the store unchanged.
C7_AnyOfferedVectorRejected ==
  [][ (/\ last'.op \in {"chunks", "upsert"}
       /\ \/ OffersWrongLength(last'.req, "embeddingLocal", 384)
          \/ OffersWrongLength(last'.req, "embeddingOpenai", 1536)) =>
        last'.status >= 400 /\ chunks' = chunks
    ]_vars

\* C7, amended: the vectors a write uses are held to their lengths.  A POST
\* /chunks that offers a local vector of length other than 384 or an OpenAI
\* vector of length other than 1536, an upsert with provider 'local' or
\* 'both' that offers a local vector of length other than 384, and an upsert
\* whose generation ends on a vector of length other than 1536, is refused
\* before any statement reaches the store, which stays as it was.  A bulk
\* element with provider 'local' or 'both' and such a local vector gets a
\* failure result, and the batch changes at most as many rows as it reports
\* successes.  No stored vector ever has another length than its column's.
C7_DimensionEnforcement ==
  [][ /\ (/\ last'.op = "chunks"
          /\ \/ OffersWrongLength(last'.req, "embeddingLocal", 384)
             \/ OffersWrongLength(last'.req, "embeddingOpenai", 1536)) =>
           Refused(last') /\ chunks' = chunks
      /\ (/\ last'.op = "upsert"
          /\ Has(last'.req, "provider") /\ last'.req.provider \in {"local", "both"}
          /\ OffersWrongLength(last'.req, "embeddingLocal", 384)) =>
           Refused(last') /\ chunks' = chunks
      /\ (last'.op = "upsert" /\ EndedOnWrongLength(last'.calls, last'.remote)) =>
           Refused(last') /\ chunks' = chunks
      /\ (last'.op = "bulk" /\ last'.status = 200) =>
           /\ \A i \in DOMAIN last'.req.chunks :
                (/\ last'.req.provider \in {"local", "both"}
                 /\ OffersWrongLength(last'.req.chunks[i], "embeddingLocal", 384)) =>
                  ~last'.body.results[i].success
           /\ Cardinality(chunks' \ chunks) <= last'.body.successCount
      /\ StoredLengths(chunks')
    ]_vars

\* the remote service answered an upsert with a vector of 384 numbers: the
\* upsert was answered 500 after one call and the stored rows are as before
C7_Witness ==
  /\ last.op = "upsert" /\ last.status = 500
  /\ last.calls = 1
  /\ EndedOnWrongLength(last.calls, last.remote)
  /\ last.body.error.text = DimensionMessage(384)
  /\ chunks # {}

\* o carries a local vector of 384 numbers
LocalVectorGood(o) ==
  Has(o, "embeddingLocal") /\ IsArray(o.embeddingLocal) /\ o.embeddingLocal.len = 384

\* C8: an upsert with provider 'both' whose generation fails, or whose local
\* embedding is absent or not 384 long, is answered with an error and writes
\* nothing; one that succeeds has set both embedding columns of the one row
\* it wrote, by one statement.
C8_BothAllOrNothing ==
  [][ (last'.op = "upsert" /\ Has(last'.req, "provider") /\ last'.req.provider = "both") =>
        /\ (GenerationFailed(last') \/ ~LocalVectorGood(last'.req)) =>
             last'.status >= 400 /\ chunks' = chunks
        /\ Succeeded(last') =>
             /\ last'.stmts = 1
             /\ last'.body.chunk \in chunks'
             /\ chunks' \ {last'.body.chunk} \subseteq chunks
             /\ last'.body.chunk.embeddingOpenai = last'.remote[last'.calls].embedding
             /\ last'.body.chunk.embeddingLocal = last'.req.embeddingLocal
    ]_vars

\* the generation succeeded for an upsert with provider 'both' of an existing
\* row, the local vector was one number short, and the row has no vector of
\* this request
C8_Witness ==
  /\ last.op = "upsert" /\ last.status = 400
  /\ Has(last.req, "provider") /\ last.req.provider = "both"
  /\ last.calls = 1 /\ ~GenerationFailed(last)
  /\ OffersWrongLength(last.req, "embeddingLocal", 384)
  /\ Has(last.req, "id") /\ KeyIn(chunks, last.req.id, last.req.channelId)
  /\ ~Has(RowAt(chunks, last.req.id, last.req.channelId), "embeddingOpenai")

BulkAnswered(l) == l.op = "bulk" /\ l.req.provider \in {"openai", "local", "both"}

ItemLacksField(item) == ~Has(item, "text") \/ ~Has(item, "channelId") \/ ~Has(item, "userId")

\* element i of the batch in l cannot be written: a required field or the
\* local vector the provider needs is missing or malformed, or its
\* generation failed
ItemFaulty(l, i) ==
  \/ ItemLacksField(l.req.chunks[i])
  \/ l.req.provider \in {"local", "both"} /\ ~LocalVectorGood(l.req.chunks[i])
  \/ /\ l.req.provider \in {"openai", "both"}
     /\ l.calls[i] = 0 \/ AttemptFails(l.remote[i][l.calls[i]])

SameKey(c, d) == c.id = d.id /\ c.channelId = d.channelId

\* C9: a bulk upsert with a valid provider answers 200 with one result for
\* each element.  An element that cannot be written gets an error result; an
\* element that can be written is processed whatever became of the elements
\* before it, and fails only if the store refuses its own statement; the
\* chunk of every success is stored when the call returns, as returned unless
\* a later success of the batch wrote the same key.
C9_BulkIsolation ==
  BulkAnswered(last) =>
    /\ last.status = 200
    /\ DOMAIN last.body.results = DOMAIN last.req.chunks
    /\ \A k \in DOMAIN last.req.chunks :
         LET res == last.body.results[k]
         IN /\ ItemFaulty(last, k) => ~res.success /\ Has(res, "error")
            /\ ~ItemFaulty(last, k) => res.success \/ res.error.by = "thrown"
            /\ res.success =>
                 /\ KeyIn(chunks, res.chunk.id, res.chunk.channelId)
                 /\ (\A j \in DOMAIN last.req.chunks :
                       (j > k /\ last.body.results[j].success) =>
                         ~SameKey(last.body.results[j].chunk, res.chunk)) =>
                      res.chunk \in chunks

\* the generation failed for the second of three elements; the first and the
\* third were written, as two rows
C9_Witness ==
  /\ BulkAnswered(last) /\ Len(last.req.chunks) = 3
  /\ last.body.results[1].success /\ last.body.results[3].success
  /\ ~last.body.results[2].success
  /\ last.calls[2] > 0 /\ AttemptFails(last.remote[2][last.calls[2]])
  /\ ~SameKey(last.body.results[1].chunk, last.body.results[3].chunk)
  /\ {last.body.results[1].chunk, last.body.results[3].chunk} \subseteq chunks

\* C10: the results of a bulk upsert are as many as the elements, and
\* results[i] is the outcome of element i: a success carries the chunk with
\* the content, userId, channelId and, if given, id of element i; an element
\* without a required field, and under provider 'local' one without a
\* 384-long local vector, carries the route's error for it.  The counts are
\* those of the results.
C10_ResultsMatchInputs ==
  BulkAnswered(last) =>
    LET items == last.req.chunks
        results == last.body.results
    IN /\ Len(results) = Len(items)
       /\ last.body.total = Len(items)
       /\ last.body.successCount = Cardinality({i \in DOMAIN results : results[i].success})
       /\ last.body.errorCount = Cardinality({i \in DOMAIN results : ~results[i].success})
       /\ \A i \in DOMAIN items :
            /\ results[i].success =>
                 /\ results[i].chunk.content = items[i].text.str
                 /\ results[i].chunk.userId = items[i].userId
                 /\ results[i].chunk.channelId = items[i].channelId
                 /\ Has(items[i], "id") => results[i].chunk.id = items[i].id
                 /\ results[i].action = IF Has(items[i], "id") THEN "upserted" ELSE "created"
            /\ ItemLacksField(items[i]) =>
                 /\ ~results[i].success
                 /\ results[i].error =
                      [by |-> "route", text |-> "text, channelId, and userId are required"]
            /\ (/\ ~ItemLacksField(items[i]) /\ last.req.provider = "local"
                /\ ~LocalVectorGood(items[i])) =>
                 /\ ~results[i].success
                 /\ results[i].error.by = "route"

\* three elements, the second without userId: results 1 and 3 are the
\* chunks of elements 1 and 3, result 2 is the error of element 2
C10_Witness ==
  /\ BulkAnswered(last) /\ Len(last.req.chunks) = 3
  /\ ~Has(last.req.chunks[2], "userId")
  /\ last.body.successCount = 2 /\ last.body.errorCount = 1
  /\ last.body.results[1].success /\ last.body.results[1].chunk.content = <<"a">>
  /\ ~last.body.results[2].success
  /\ last.body.results[3].success /\ last.body.results[3].chunk.content = <<"b">>

\* C11: in a bulk-upsert response, successCount is the number of results with
\* success true, errorCount the number with success false, and their sum is
\* total, the number of elements of the request.
C11_BulkCounts ==
  (last.op = "bulk" /\ last.status = 200) =>
    LET results == last.body.results
        good == {i \in DOMAIN results : results[i].success = TRUE}
        bad == {i \in DOMAIN results : results[i].success = FALSE}
    IN /\ last.body.successCount = Cardinality(good)
       /\ last.body.errorCount = Cardinality(bad)
       /\ last.body.successCount + last.body.errorCount = last.body.total
       /\ last.body.total = Len(last.req.chunks)

\* a batch of two elements was answered with one success and one failure
C11_Witness ==
  /\ last.op = "bulk" /\ last.status = 200
  /\ Len(last.req.chunks) = 2
  /\ last.body.successCount = 1 /\ last.body.errorCount = 1 /\ last.body.total = 2

\* C12: a bulk upsert whose provider is not 'openai', 'local' or 'both' is
\* answered 400 with no call to the remote service, no statement sent to the
\* store and the rows as they were, however many elements it holds.
C12_ProviderBeforeItems ==
  [][ (last'.op = "bulk" /\ last'.req.provider \notin {"openai", "local", "both"}) =>
        /\ last'.status = 400
        /\ Has(last'.body, "error") /\ ~Has(last'.body, "results")
        /\ last'.calls = <<>> /\ last'.remote = <<>>
        /\ last'.stmts = 0
        /\ chunks' = chunks /\ idSeq' = idSeq
    ]_vars

\* a batch of three elements, two of which could have been written, was
\* refused for its provider while the remote service is configured
C12_Witness ==
  /\ last.op = "bulk" /\ last.status = 400
  /\ last.req.provider = "invalid"
  /\ Len(last.req.chunks) = 3
  /\ apiKey
  /\ chunks # {}

\* the request in last called the remote service
Generated(l) == l.op \in {"embed", "upsert", "search"} /\ l.calls > 0

\* message is a status code of the 5xx class
Is5xx(message) == Len(message) = 3 /\ message[1] = "5"

\* answer is a failure the specification calls transient: a rate limit, a
\* timeout or a 5xx-class condition
TransientFailure(answer) ==
  /\ Has(answer, "error")
  /\ \/ Includes(answer.error, <<"r","a","t","e"," ","l","i","m","i","t">>)
     \/ Includes(answer.error, <<"t","i","m","e","o","u","t">>)
     \/ answer.error = <<"4","2","9">>
     \/ Is5xx(answer.error)

\* answer is a vector whose length is not 1536
WrongLengthAnswer(answer) == Has(answer, "embedding") /\ answer.embedding.len # 1536

\* C13 as stated: a generation ends on a transient failure (rate limit,
\* timeout, 5xx class) only after 3 calls, having waited 1000 and then 2000
\* milliseconds, and then fails with the error of the last call.
C13_TransientRetriedTwice ==
  (Generated(last) /\ TransientFailure(last.remote[last.calls])) =>
    /\ last.calls = 3
    /\ last.delays = <<1000, 2000>>
    /\ last.status = 500
    /\ last.body.error.text = last.remote[3].error

\* C14 as stated: a generation whose first answer is a vector of a length
\* other than 1536 makes that one call only and fails.
C14_WrongLengthNotRetried ==
  (Generated(last) /\ WrongLengthAnswer(last.remote[1])) =>
    /\ last.calls = 1
    /\ last.delays = <<>>
    /\ last.status = 500

TextGiven(o) == Has(o, "text") /\ IsString(o.text) /\ Trim(o.text.str) # <<>>

\* the request in l gets as far as the embedding generation
NeedsGeneration(l) ==
  \/ l.op = "embed" /\ TextGiven(l.req)
  \/ l.op = "search" /\ ProviderOf(l.req) = "openai" /\ TextGiven(l.req)
  \/ /\ l.op = "upsert" /\ ProviderOf(l.req) \in {"openai", "both"} /\ TextGiven(l.req)
     /\ Has(l.req, "channelId") /\ l.req.channelId # 0
     /\ Has(l.req, "userId") /\ l.req.userId # 0

\* C16: while the OpenAI credential is not configured, a request that needs
\* the generation is answered 500 with 'OPENAI_API_KEY is not configured',
\* without a call to the remote service, without a wait, without a statement
\* sent to the store, and the rows stay as they were.
C16_NotConfigured ==
  [][ (~apiKey /\ NeedsGeneration(last')) =>
        /\ last'.status = 500
        /\ last'.body.error = [by |-> "thrown", text |-> MsgKeyNotConfigured]
        /\ last'.calls = 0 /\ last'.remote = <<>> /\ last'.delays = <<>>
        /\ last'.stmts = 0
        /\ chunks' = chunks /\ idSeq' = idSeq
    ]_vars

\* without the credential, an upsert with provider 'both' of an existing row
\* was answered 500
C16_Witness ==
  /\ ~apiKey
  /\ last.op = "upsert" /\ last.status = 500
  /\ ProviderOf(last.req) = "both"
  /\ LocalVectorGood(last.req)
  /\ Has(last.req, "id") /\ KeyIn(chunks, last.req.id, last.req.channelId)

\* C17: an upsert that lacks text, channelId or userId is answered 400 with
\* the error that names the three required fields, before any call to the
\* remote service and before any statement to the store; the rows stay as
\* they were.
C17_RequiredFields ==
  [][ (/\ last'.op = "upsert"
       /\ ~Has(last'.req, "text") \/ ~Has(last'.req, "channelId") \/ ~Has(last'.req, "userId")) =>
        /\ last'.status = 400
        /\ last'.body.error =
             [by |-> "route", text |-> "text, channelId, and userId are required"]
        /\ last'.calls = 0 /\ last'.remote = <<>>
        /\ last'.stmts = 0
        /\ chunks' = chunks /\ idSeq' = idSeq
    ]_vars

\* an upsert without userId, which names an existing row, was answered 400
C17_Witness ==
  /\ last.op = "upsert" /\ last.status = 400
  /\ ~Has(last.req, "userId")
  /\ Has(last.req, "text") /\ Has(last.req, "channelId") /\ Has(last.req, "id")
  /\ KeyIn(chunks, last.req.id, last.req.channelId)

\* C18: a search is answered 400 with no statement sent to the store when
\* its provider is neither 'openai' nor 'local', when the provider is
\* 'openai' (also by default) and the text is missing, and when the provider
\* is 'local' and the embedding is missing or an array of a length other
\* than 384; with an invalid provider, and with a missing text, no call to
\* the remote service is made either.
C18_SearchValidation ==
  last.op = "search" =>
    LET req == last.req
        given == Has(req, "provider")
        refused == last.status = 400 /\ last.body.error.by = "route" /\ last.stmts = 0
    IN /\ (given /\ req.provider \notin {"openai", "local"}) => refused /\ last.calls = 0
       /\ ((~given \/ req.provider = "openai") /\ ~Has(req, "text")) =>
            refused /\ last.calls = 0
       /\ (given /\ req.provider = "local" /\ ~Has(req, "embedding")) => refused
       /\ (given /\ req.provider = "local" /\ OffersWrongLength(req, "embedding", 384)) =>
            refused

\* a search with provider 'both' that carries a text and a 384-long vector
\* was answered 400 while the store holds a row it could have returned
C18_Witness ==
  /\ last.op = "search" /\ last.status = 400
  /\ Has(last.req, "provider") /\ last.req.provider = "both"
  /\ Has(last.req, "text") /\ Has(last.req, "embedding")
  /\ apiKey
  /\ \E r \in chunks : Has(r, "embeddingLocal") /\ Has(r, "embeddingOpenai")

\* the upsert in l returned a chunk
UpsertReturned(l) == l.op = "upsert" /\ Has(l.body, "chunk")

\* C19 as stated: an upsert that returns a chunk answers 200 with action
\* 'updated' whenever the request has an id, and 201 with action 'created'
\* whenever it has none.
C19_UpdatedWhenIdSupplied ==
  UpsertReturned(last) =>
    IF Has(last.req, "id") THEN last.status = 200 /\ last.body.action = "updated"
    ELSE last.status = 201 /\ last.body.action = "created"

\* C19, amended: an upsert that returns a chunk answers 200 with action
\* 'upserted' when the request has an id other than 0, whether the row
\* existed or not, and 201 with action 'created' when it has no id or the
\* id 0.
C19_UpsertedWhenIdTruthy ==
  UpsertReturned(last) =>
    IF Has(last.req, "id") /\ last.req.id # 0
      THEN last.status = 200 /\ last.body.action = "upserted"
    ELSE last.status = 201 /\ last.body.action = "created"

\* the only row the store ever held was inserted by an upsert with an id, and
\* the answer is 200 'upserted'
C19_Witness ==
  /\ UpsertReturned(last)
  /\ Has(last.req, "id") /\ last.body.chunk.id = last.req.id
  /\ last.status = 200 /\ last.body.action = "upserted"
  /\ chunks = {last.body.chunk}
  /\ clock = 1 /\ idSeq = 0

\* C20: every step leaves the createdAt of every stored row as it was, and a
\* row that appears in a step has a store's time of that step as its
\* createdAt (a batch can insert several rows, one after the other).
C20_CreatedAtSetOnce ==
  [][ /\ \A r \in chunks :
           /\ KeyIn(chunks', r.id, r.channelId)
           /\ RowAt(chunks', r.id, r.channelId).createdAt = r.createdAt
      /\ \A n \in chunks' :
           ~KeyIn(chunks, n.id, n.channelId) => clock <= n.createdAt /\ n.createdAt < clock'
    ]_vars

\* the first row of the store was upserted with another text by a keyed
\* upsert after a second row had been inserted, and has the time of its
\* insertion
C20_Witness ==
  /\ KeyedUpsert(last)
  /\ last.body.chunk.createdAt = 0
  /\ clock = 2
  /\ last.body.chunk.content = <<"b">>
  /\ last.body.chunk.embeddingProvider = "both"
  /\ \E r \in chunks : r.createdAt = 1

\* the embedding columns that are not null in row r
Populated(r) == {c \in {"embeddingOpenai", "embeddingLocal"} : Has(r, c)}

\* the embedding columns a provider tag stands for
TagColumns(tag) ==
  IF tag = "openai" THEN {"embeddingOpenai"}
  ELSE IF tag = "local" THEN {"embeddingLocal"}
  ELSE {"embeddingOpenai", "embeddingLocal"}

\* C21 as stated: the embeddingProvider of every stored chunk is 'openai',
\* 'local' or 'both', and the embedding columns that are not null are
\* exactly those the tag stands for.
C21_TagRecordsColumns ==
  \A r \in chunks :
    /\ Has(r, "embeddingProvider")
    /\ r.embeddingProvider \in {"openai", "local", "both"}
    /\ Populated(r) = TagColumns(r.embeddingProvider)

\* the answers of a remote service that returns, to each call, the vector
\* the generation of the request in l ended on
SameAnswers(l) ==
  IF l.calls = 0 THEN <<>> ELSE [i \in 1..(DefaultRetries + 1) |-> l.remote[l.calls]]

\* C22: the same keyed upsert applied again, the remote service returning
\* the same vector, is answered 200 with the same chunk and leaves the rows,
\* the id sequence and the store's time as the first application left them.
C22_KeyedUpsertIdempotent ==
  [][ KeyedUpsert(last') =>
        LET again == upsertRoute([chunks |-> chunks', idSeq |-> idSeq', clock |-> clock'],
                                 apiKey, last'.req, SameAnswers(last'))
        IN /\ again.status = 200
           /\ again.body = last'.body
           /\ again.db = [chunks |-> chunks', idSeq |-> idSeq', clock |-> clock']
    ]_vars

\* a keyed upsert with provider 'both' rewrote the first of two rows with
\* the vector the remote service returned
C22_Witness ==
  /\ KeyedUpsert(last)
  /\ ProviderOf(last.req) = "both"
  /\ last.calls = 1
  /\ Cardinality(chunks) = 2
  /\ last.body.chunk.createdAt = 0
  /\ last.body.chunk \in chunks

\* C23: a search, whatever its body and however it is answered, leaves the
\* stored chunks with all their fields, the id sequence and the store's time
\* as they were.
C23_SearchReadOnly ==
  [][ last'.op = "search" => chunks' = chunks /\ idSeq' = idSeq /\ clock' = clock ]_vars

\* a search returned the two rows of the store, which still holds them
C23_Witness ==
  /\ SearchAnswered(last)
  /\ Len(last.body.results) = 2
  /\ chunks = {last.body.results[1], last.body.results[2]}
  /\ Cardinality(chunks) = 2

\* the remote service's answers to the request in l, given again
Replay(l) ==
  IF l.calls = 0 THEN <<>>
  ELSE [i \in 1..(DefaultRetries + 1) |-> l.remote[IF i < l.calls THEN i ELSE l.calls]]

\* the embedding fields a search body can carry next to its text
OtherEmbeddings ==
  { <<>>, [embedding |-> L1], [embedding |-> L2], [embedding |-> ShortLocal],
    [embedding |-> [len |-> LocalDimensions, x |-> 0, y |-> 1]],
    [embedding |-> O2], [embedding |-> NotAnArray] }

\* C24: a search with provider 'openai' (also by default) gets the response
\* of the same search with any other embedding field, of the right length,
\* of a wrong length, or absent, whatever order the store holds its rows in;
\* a search with provider 'local' makes no call to the remote service, with
\* or without a text.
C24_UnusedInputIgnored ==
  last.op = "search" =>
    /\ SearchedColumn(last.req) = "embeddingOpenai" =>
         /\ \A rowOrder \in RowOrders(chunks) : \A e \in OtherEmbeddings :
              LET own == searchRoute(Db, apiKey, last.req, Replay(last), rowOrder)
                  other == searchRoute(Db, apiKey, Merge(Without(last.req, "embedding"), e),
                                       Replay(last), rowOrder)
              IN other.status = own.status /\ other.body = own.body
         /\ \E rowOrder \in RowOrders(chunks) :
              LET own == searchRoute(Db, apiKey, last.req, Replay(last), rowOrder)
              IN own.status = last.status /\ own.body = last.body
    /\ (Has(last.req, "provider") /\ last.req.provider = "local") =>
         last.calls = 0 /\ last.remote = <<>> /\ last.delays = <<>>

\* a search with provider 'openai' that carries a vector one number short
\* returned the nearer of two rows, which a query by the other direction
\* would not have returned first
C24_Witness ==
  /\ SearchAnswered(last)
  /\ Has(last.req, "provider") /\ last.req.provider = "openai"
  /\ Has(last.req, "embedding") /\ last.req.embedding.len # LocalDimensions
  /\ Len(last.body.results) = 2
  /\ ~DistanceLeq(last.body.results[2].embeddingOpenai, last.body.results[1].embeddingOpenai,
                  QueryOf(last))

\* the texts of the errors the store raises
StoreMessages == {MsgDuplicateKey, MsgNotNull, MsgVector, MsgLimit}

\* the response in l is the error of a statement the store refused
StoreRefused(l) == l.status = 500 /\ l.stmts > 0

\* C25 as stated: every error response carries a message, and when the store
\* refuses a statement the message is not the store's own error text.
C25_NoStoreDetail ==
  (last # Idle /\ last.status >= 400) =>
    /\ Has(last.body, "error") /\ Has(last.body.error, "text")
    /\ StoreRefused(last) =>
         ~(last.body.error.by = "thrown" /\ last.body.error.text \in StoreMessages)

\* column of row holds what the request carries in field: its value, or
\* NULL when the request has no such field
ColumnFromRequest(row, column, req, field) ==
  /\ Has(row, column) <=> Has(req, field)
  /\ Has(req, field) => row[column] = req[field]

\* C26 as stated: a keyed upsert of an existing (id, channelId) row leaves
\* the row with the content, userId, writerChannelId, metadata and provider
\* of the request, writerChannelId and metadata being NULL when the request
\* omits them.
C26_UpdateSetsAllFields ==
  [][ (KeyedUpsert(last') /\ KeyIn(chunks, last'.req.id, last'.req.channelId)) =>
        LET new == RowAt(chunks', last'.req.id, last'.req.channelId)
        IN /\ new.content = last'.req.text.str
           /\ new.userId = last'.req.userId
           /\ new.embeddingProvider = ProviderOf(last'.req)
           /\ ColumnFromRequest(new, "writerChannelId", last'.req, "writerChannelId")
           /\ ColumnFromRequest(new, "metadata", last'.req, "metadata")
    ]_vars

CreateSent(l) == l.op = "upsert" /\ ~Has(l.req, "id") /\ l.stmts = 1

\* C28 as stated: a valid upsert without id is answered 201 'created' with
\* a chunk whose id was not in use under its channelId, whatever creates and
\* upserts with caller-chosen ids came before.
C28_CreateNeverCollides ==
  [][ CreateSent(last') =>
        /\ last'.status = 201
        /\ Has(last'.body, "chunk")
        /\ ~KeyIn(chunks, last'.body.chunk.id, last'.body.chunk.channelId)
        /\ last'.body.chunk \in chunks'
    ]_vars

\* the upsert body o passes the checks of text, channelId, userId
RequiredGiven(o) ==
  /\ Has(o, "text") /\ IsString(o.text) /\ o.text.str # <<>>
  /\ Has(o, "channelId") /\ o.channelId # 0
  /\ Has(o, "userId") /\ o.userId # 0

\* the upsert in l has provider 'both' and no local vector of 384 numbers
BothWithoutLocal(l) ==
  /\ l.op = "upsert" /\ RequiredGiven(l.req)
  /\ Has(l.req, "provider") /\ l.req.provider = "both"
  /\ ~LocalVectorGood(l.req)

\* C29 as stated: an upsert with provider 'both' whose local embedding is
\* absent or not 384 long is answered 400 without a call to the remote
\* service, whether the service would answer, fail, or is not configured.
C29_LocalCheckedBeforeRemote ==
  BothWithoutLocal(last) =>
    /\ last.status = 400
    /\ last.calls = 0 /\ last.remote = <<>>

\* the write in l was refused as lacking a required field
RefusedAsMissing(l) ==
  /\ l.status = 400
  /\ l.body.error.by = "route"
  /\ l.body.error.text \in {"text, channelId, and userId are required",
                            "Missing required fields: channelId, userId, content"}

\* o carries channelId and userId, and one of them is 0
ZeroKeyField(o) ==
  /\ Has(o, "channelId") /\ Has(o, "userId")
  /\ o.channelId = 0 \/ o.userId = 0

\* C30 as stated: a write whose channelId or userId is 0 is not refused as
\* lacking a required field, and an upsert whose id is 0 that returns a
\* chunk is answered 200 with the row of key (0, channelId).
C30_ZeroIsPresent ==
  /\ (last.op \in {"upsert", "chunks"} /\ ZeroKeyField(last.req)) => ~RefusedAsMissing(last)
  /\ (UpsertReturned(last) /\ Has(last.req, "id") /\ last.req.id = 0) =>
       /\ last.status = 200
       /\ last.body.chunk.id = 0
       /\ last.body.chunk.channelId = last.req.channelId

====
